---- MODULE Spec2Model ----
(***************************************************************************)
(* Model of app.py: the question/option/vote store kept in votes.db, the   *)
(* repository functions over it, the schema manager and the screens that   *)
(* call them.                                                              *)
(*                                                                         *)
(* The store is a record of three tables and the sqlite_sequence counters  *)
(* behind the AUTOINCREMENT keys.  `db` is what the connection sees (its   *)
(* open transaction included), `disk` is what has been committed.          *)
(* created_at and meta are left out: no operation of the model reads them. *)
(***************************************************************************)
EXTENDS Integers, Sequences, FiniteSets, TLC

VARIABLES db, disk, lastrowid, sess, last, hist

vars == <<db, disk, lastrowid, sess, last, hist>>

-----------------------------------------------------------------------------
(* Bounds of the model                                                     *)

MaxQuestions == 2
MaxOpts == 3
MaxVotes == 2
MaxFailures == 1
\* script runs (requests and button presses) the sessions start in SpecUI
MaxRuns == 3

QuestionTexts == {"Pick"}
OptionTexts == {"Red", "Blue"}

\* options_list values handed to insert_question_with_options: any
\* non-empty list of up to MaxOpts option texts (the function itself does
\* not test the length).
OptionLists == UNION {[1..n -> OptionTexts] : n \in 1..MaxOpts}

\* get_question's not-found result: a value no row can equal (rowids start
\* at 1).
None == [id |-> 0, question_text |-> "", options |-> <<>>]

-----------------------------------------------------------------------------
(* The store                                                               *)

Max2(a, b) == IF a >= b THEN a ELSE b

MaxId(rows) ==
  IF rows = {} THEN 0
  ELSE CHOOSE m \in {r.id : r \in rows} : \A r \in rows : r.id <= m

\* votes.db before the first CREATE TABLE.
EmptyFile ==
  [tables |-> [questions |-> FALSE, options |-> FALSE, votes |-> "absent"],
   questions |-> {}, options |-> {}, votes |-> {},
   seq |-> [questions |-> 0, options |-> 0, votes |-> 0]]

\* INTEGER PRIMARY KEY AUTOINCREMENT: one more than the largest key the
\* table ever held (sqlite_sequence), never a key of a deleted row.
NewId(seqv, rows) == Max2(seqv, MaxId(rows)) + 1

\* ensure_schema without the test of line 28: any votes table is dropped.
ensure_schema_always_drop(d) ==
  LET d1 == IF d.tables.votes # "absent"
              THEN [d EXCEPT !.tables.votes = "absent", !.votes = {},
                             !.seq.votes = 0]
              ELSE d
  IN [d1 EXCEPT !.tables = [questions |-> TRUE, options |-> TRUE,
                            votes |-> "has_id"]]

\* DROP TABLE votes when it exists without an id column, then the three
\* CREATE TABLE IF NOT EXISTS.
ensure_schema(d) ==
  LET d1 == IF d.tables.votes = "no_id"
              THEN [d EXCEPT !.tables.votes = "absent", !.votes = {},
                             !.seq.votes = 0]
              ELSE d
  IN [d1 EXCEPT !.tables = [questions |-> TRUE, options |-> TRUE,
                            votes |-> IF d1.tables.votes = "absent"
                                        THEN "has_id" ELSE d1.tables.votes]]

\* INSERT INTO questions (line 74).
InsertQuestionRow(d, question_text) ==
  LET id == NewId(d.seq.questions, d.questions)
  IN [d EXCEPT !.questions = @ \cup {[id |-> id, question_text |-> question_text]},
               !.seq.questions = id]

\* INSERT INTO options (line 78).
InsertOptionRow(d, qid, opt) ==
  LET id == NewId(d.seq.options, d.options)
  IN [d EXCEPT !.options = @ \cup {[id |-> id, question_id |-> qid, option_text |-> opt]},
               !.seq.options = id]

\* the INSERT of line 103 with its two parameters bound the other way round.
InsertVoteRowSwapped(d, question_id, option_id) ==
  LET id == NewId(d.seq.votes, d.votes)
  IN [d EXCEPT !.votes = @ \cup {[id |-> id, question_id |-> option_id,
                                  option_id |-> question_id]},
               !.seq.votes = id]

\* the INSERT of line 103 reusing the largest key instead of a fresh one
\* (INSERT OR REPLACE on a key that is not AUTOINCREMENT).
InsertVoteRowReplace(d, question_id, option_id) ==
  LET id == Max2(1, MaxId(d.votes))
  IN [d EXCEPT !.votes = {v \in @ : v.id # id}
                           \cup {[id |-> id, question_id |-> question_id,
                                  option_id |-> option_id]},
               !.seq.votes = id]

\* INSERT INTO votes (line 103).  No foreign key is enforced: the connection
\* never issues PRAGMA foreign_keys=ON, so any pair of integers is stored.
InsertVoteRow(d, question_id, option_id) ==
  LET id == NewId(d.seq.votes, d.votes)
  IN [d EXCEPT !.votes = @ \cup {[id |-> id, question_id |-> question_id,
                                  option_id |-> option_id]},
               !.seq.votes = id]

RECURSIVE InsertOptions(_, _, _)
\* the loop of lines 77-78: one INSERT per entry, in list order.
InsertOptions(d, qid, opts) ==
  IF opts = <<>> THEN d
  ELSE InsertOptions(InsertOptionRow(d, qid, Head(opts)), qid, Tail(opts))

Reverse(s) == [i \in 1..Len(s) |-> s[Len(s) + 1 - i]]

\* insert_question_with_options walking options_list from its end.
insert_question_with_options_reversed(d, question_text, options_list) ==
  LET d1 == InsertQuestionRow(d, question_text)
      qid == d1.seq.questions
  IN [db |-> InsertOptions(d1, qid, Reverse(options_list)), qid |-> qid]

\* insert_question_with_options, run alone: the store it leaves and the id
\* it returns (c.lastrowid of the question INSERT).
insert_question_with_options(d, question_text, options_list) ==
  LET d1 == InsertQuestionRow(d, question_text)
      qid == d1.seq.questions
  IN [db |-> InsertOptions(d1, qid, options_list), qid |-> qid]

RECURSIVE OrderById(_)
\* ORDER BY id over a set of rows.
OrderById(rows) ==
  IF rows = {} THEN <<>>
  ELSE LET r == CHOOSE x \in rows : \A y \in rows : x.id <= y.id
       IN <<r>> \o OrderById(rows \ {r})

OptionsOf(d, qid) == {o \in d.options : o.question_id = qid}

get_question(d, qid) ==
  IF ~ \E q \in d.questions : q.id = qid THEN None
  ELSE LET row == CHOOSE q \in d.questions : q.id = qid
           opts == OrderById(OptionsOf(d, qid))
       IN [id |-> row.id, question_text |-> row.question_text,
           options |-> [i \in 1..Len(opts) |->
                          [id |-> opts[i].id, text |-> opts[i].option_text]]]

\* options o LEFT JOIN votes v ON v.option_id = o.id AND v.question_id = ?
\* WHERE o.question_id = ? GROUP BY o.id ORDER BY o.id
get_results(d, question_id) ==
  LET opts == OrderById(OptionsOf(d, question_id))
  IN [i \in 1..Len(opts) |->
        [option_text |-> opts[i].option_text,
         count |-> Cardinality({v \in d.votes : v.option_id = opts[i].id
                                               /\ v.question_id = question_id}),
         option_id |-> opts[i].id]]

DeleteVotesOf(d, question_id) ==
  [d EXCEPT !.votes = {v \in @ : v.question_id # question_id}]

DeleteOptionsOf(d, question_id) ==
  [d EXCEPT !.options = {o \in @ : o.question_id # question_id}]

DeleteQuestionRow(d, question_id) ==
  [d EXCEPT !.questions = {q \in @ : q.id # question_id}]

\* the three DELETE statements of delete_question, run alone.
delete_question(d, question_id) ==
  DeleteQuestionRow(DeleteOptionsOf(DeleteVotesOf(d, question_id), question_id),
                    question_id)

\* the three DELETE statements of the Admin Cleanup button.
DeleteAll(d) == [d EXCEPT !.votes = {}, !.options = {}, !.questions = {}]

-----------------------------------------------------------------------------
(* Bookkeeping shared by the specifications                                *)

Sessions == {"s1", "s2"}

\* ids handed to record_vote and delete_question: every question id the run
\* can create, and the option ids of the first question and one beyond.
QidArgs == 1..MaxQuestions
OidArgs == 1..(MaxOpts + 1)

\* how many record_vote calls of the screens have returned, per
\* (question_id, option_id).
NoCalls == [p \in QidArgs \X (1..(MaxQuestions * MaxOpts)) |-> 0]

\* One browser session's script run: where it is, the q parameter it was
\* given and its local variables.
IdleSession == [pc |-> "idle", q |-> <<>>, qid |-> 0, oid |-> 0, opts |-> <<>>]

\* The last repository call (Spec, SpecFail, SpecSchema) or the last
\* st.error shown by a public-vote request (SpecUI).
NoCall == [op |-> "none", qid |-> 0, oid |-> 0, opts |-> <<>>, before |-> <<>>]

\* st.error(message) followed by st.stop(): the run of session s ends.
ErrorStop(s, message) ==
  /\ sess' = [sess EXCEPT ![s] = IdleSession]
  /\ last' = [NoCall EXCEPT !.op = message]

\* an exception handler that rolls the open transaction back.
OnRaiseRollback(d, committed) == committed

\* An exception leaves insert_question_with_options with no handler and no
\* rollback: the connection keeps the statements already executed in its
\* open transaction.
OnRaise(d, committed) == d

\* conn.commit(): the open transaction becomes durable.  `failed` remembers
\* the interrupted inserts and whether a commit has followed them.
Committed(h) ==
  [h EXCEPT !.failed = {[f EXCEPT !.committed = TRUE] : f \in @}]

\* hist is bookkeeping for the properties: the question ids deleted so
\* far, the record_vote calls made per question id (Spec), the interrupted
\* inserts (SpecFail), the record_vote calls returned and whether two of
\* them overlapped (SpecUI), the runs started (SpecUI), the process starts
\* and the votes table found at the first one (SpecSchema).
InitStore ==
  /\ db = ensure_schema(EmptyFile)
  /\ disk = db
  /\ lastrowid = 0
  /\ sess = [s \in Sessions |-> IdleSession]
  /\ last = NoCall
  /\ hist = [deleted |-> {}, voteCalls |-> [q \in QidArgs |-> 0],
             failed |-> {}, calls |-> NoCalls,
             overlap |-> FALSE, starts |-> 1, file0 |-> "absent", runs |-> 0]

-----------------------------------------------------------------------------
(* Spec: the repository functions called one at a time, with any arguments *)

Init == InitStore

ApiInsert(question_text, options_list) ==
  /\ db.seq.questions < MaxQuestions
  /\ LET r == insert_question_with_options(db, question_text, options_list)
     IN /\ db' = r.db
        /\ disk' = r.db
        /\ lastrowid' = IF options_list = <<>> THEN r.qid ELSE r.db.seq.options
        /\ last' = [NoCall EXCEPT !.op = "insert", !.qid = r.qid,
                                  !.opts = options_list]
  /\ hist' = Committed(hist)
  /\ UNCHANGED sess

\* the same call, raising at the INSERT of option k+1.
ApiInsertFail(question_text, options_list, k) ==
  /\ db.seq.questions < MaxQuestions
  /\ Cardinality(hist.failed) < MaxFailures
  /\ k < Len(options_list)
  /\ LET d1 == InsertQuestionRow(db, question_text)
         qid == d1.seq.questions
         d2 == InsertOptions(d1, qid, SubSeq(options_list, 1, k))
     IN /\ db' = OnRaise(d2, disk)
        /\ lastrowid' = IF k = 0 THEN qid ELSE d2.seq.options
        /\ last' = [NoCall EXCEPT !.op = "insert_failed", !.qid = qid,
                                  !.opts = options_list]
        /\ hist' = [hist EXCEPT !.failed = @ \cup
                      {[qid |-> qid, opts |-> options_list, k |-> k,
                        committed |-> FALSE]}]
  /\ UNCHANGED <<disk, sess>>

ApiVote(question_id, option_id) ==
  /\ db.seq.votes < MaxVotes
  /\ db' = InsertVoteRow(db, question_id, option_id)
  /\ disk' = db'
  /\ lastrowid' = db'.seq.votes
  /\ last' = [NoCall EXCEPT !.op = "vote", !.qid = question_id,
                            !.oid = option_id,
                            !.before = get_results(db, question_id)]
  /\ hist' = [Committed(hist) EXCEPT !.voteCalls[question_id] = @ + 1]
  /\ UNCHANGED sess

ApiDelete(question_id) ==
  /\ db' = delete_question(db, question_id)
  /\ disk' = db'
  /\ last' = [NoCall EXCEPT !.op = "delete", !.qid = question_id,
                            !.before = get_results(db, question_id)]
  /\ hist' = [Committed(hist) EXCEPT !.deleted =
                @ \cup {q.id : q \in {x \in db.questions : x.id = question_id}}]
  /\ UNCHANGED <<lastrowid, sess>>

ApiCleanup ==
  /\ db' = DeleteAll(db)
  /\ disk' = db'
  /\ last' = [NoCall EXCEPT !.op = "cleanup"]
  /\ hist' = [Committed(hist) EXCEPT !.deleted = @ \cup {q.id : q \in db.questions}]
  /\ UNCHANGED <<lastrowid, sess>>

Next ==
  \/ \E t \in QuestionTexts, l \in OptionLists : ApiInsert(t, l)
  \/ \E q \in QidArgs, o \in OidArgs : ApiVote(q, o)
  \/ \E q \in QidArgs : ApiDelete(q)
  \/ ApiCleanup

Spec == Init /\ [][Next]_vars

-----------------------------------------------------------------------------
(* SpecFail: the same calls, where an insert may raise part-way            *)

NextFail ==
  \/ \E t \in QuestionTexts, l \in OptionLists : ApiInsert(t, l)
  \/ \E t \in QuestionTexts, l \in OptionLists, k \in 0..(MaxOpts - 1) :
        ApiInsertFail(t, l, k)
  \/ \E q \in QidArgs, o \in OidArgs : ApiVote(q, o)
  \/ \E q \in QidArgs : ApiDelete(q)

SpecFail == Init /\ [][NextFail]_vars

-----------------------------------------------------------------------------
(* SpecSchema: ensure_schema at process start, over any votes.db           *)

MaxStarts == 3

LegacyQuestions == {[id |-> 1, question_text |-> "Pick"],
                    [id |-> 2, question_text |-> "Pick"]}
LegacyOptions == {[id |-> 1, question_id |-> 1, option_text |-> "Red"],
                  [id |-> 2, question_id |-> 1, option_text |-> "Blue"]}
LegacyVotes == {[id |-> 1, question_id |-> 1, option_id |-> 1],
                [id |-> 2, question_id |-> 1, option_id |-> 2]}

\* A votes.db left by any earlier version of the program: each table is
\* there or not, the votes table with or without an id column (its rows
\* are then known by rowid).
LegacyFiles ==
  {[tables |-> [questions |-> tq, options |-> to, votes |-> tv],
    questions |-> qs, options |-> os, votes |-> vs,
    seq |-> [questions |-> MaxId(qs), options |-> MaxId(os), votes |-> MaxId(vs)]] :
     tq \in BOOLEAN, to \in BOOLEAN, tv \in {"absent", "no_id", "has_id"},
     qs \in SUBSET LegacyQuestions, os \in SUBSET LegacyOptions,
     vs \in SUBSET LegacyVotes}

InitSchema ==
  /\ disk \in {f \in LegacyFiles :
                 /\ (~ f.tables.questions => f.questions = {})
                 /\ (~ f.tables.options => f.options = {})
                 /\ (f.tables.votes = "absent" => f.votes = {})}
  /\ db = disk
  /\ lastrowid = 0
  /\ sess = [s \in Sessions |-> IdleSession]
  /\ last = NoCall
  /\ hist = [deleted |-> {}, voteCalls |-> [q \in QidArgs |-> 0],
             failed |-> {}, calls |-> NoCalls,
             overlap |-> FALSE, starts |-> 0, file0 |-> disk.tables.votes,
             runs |-> 0]

\* lines 18-19 and 59: the process opens votes.db and calls ensure_schema.
Startup ==
  /\ hist.starts < MaxStarts
  /\ db' = ensure_schema(disk)
  /\ disk' = db'
  /\ last' = [op |-> "ensure_schema", qid |-> 0, oid |-> 0, opts |-> <<>>,
              before |-> disk]
  /\ hist' = [hist EXCEPT !.starts = @ + 1]
  /\ UNCHANGED <<lastrowid, sess>>

NextSchema == Startup

SpecSchema == InitSchema /\ [][NextSchema]_vars

\* C7: after ensure_schema the three tables exist and votes has an id
\* column; the rows of questions and options are kept, the rows of votes
\* are lost only when the votes table existed without an id column; a
\* second call changes nothing.
C7_EnsureSchemaIdempotent ==
  last.op = "ensure_schema" =>
     /\ db.tables = [questions |-> TRUE, options |-> TRUE, votes |-> "has_id"]
     /\ db.questions = last.before.questions
     /\ db.options = last.before.options
     /\ (last.before.tables.votes # "no_id" => db.votes = last.before.votes)
     /\ (db.votes # last.before.votes => last.before.tables.votes = "no_id")
     /\ (hist.starts >= 2 => db = last.before)

C7_Witness ==
  /\ last.op = "ensure_schema"
  /\ hist.starts = 2
  /\ hist.file0 = "no_id"
  /\ db.votes = {}
  /\ db.questions # {}
  /\ db = last.before

-----------------------------------------------------------------------------
(* The q query parameter and int()                                         *)

\* A parameter value is a sequence of one-character strings.
Digits == {"0", "1", "2", "3", "4", "5", "6", "7", "8", "9"}

DigitValue(ch) ==
  CASE ch = "0" -> 0 [] ch = "1" -> 1 [] ch = "2" -> 2 [] ch = "3" -> 3
    [] ch = "4" -> 4 [] ch = "5" -> 5 [] ch = "6" -> 6 [] ch = "7" -> 7
    [] ch = "8" -> 8 [] ch = "9" -> 9

RECURSIVE LStrip(_)
LStrip(str) == IF str # <<>> /\ Head(str) = " " THEN LStrip(Tail(str)) ELSE str

RECURSIVE RStrip(_)
RStrip(str) ==
  IF str # <<>> /\ str[Len(str)] = " "
    THEN RStrip(SubSeq(str, 1, Len(str) - 1)) ELSE str

RECURSIVE ScanDigits(_, _, _, _)
\* digits, single underscores allowed between two digits.
ScanDigits(str, acc, any, afterUnderscore) ==
  IF str = <<>> THEN [ok |-> any /\ ~ afterUnderscore, value |-> acc]
  ELSE IF Head(str) \in Digits
    THEN ScanDigits(Tail(str), acc * 10 + DigitValue(Head(str)), TRUE, FALSE)
  ELSE IF Head(str) = "_" /\ any /\ ~ afterUnderscore
    THEN ScanDigits(Tail(str), acc, any, TRUE)
  ELSE [ok |-> FALSE, value |-> 0]

\* a parser that reads the leading digits and ignores what follows them.
IntParsePrefix(str) ==
  LET t == RStrip(LStrip(str))
      RECURSIVE Lead(_, _)
      Lead(u, acc) == IF u # <<>> /\ Head(u) \in Digits
                        THEN Lead(Tail(u), acc * 10 + DigitValue(Head(u)))
                        ELSE acc
  IN IF t # <<>> /\ Head(t) \in Digits
       THEN [ok |-> TRUE, value |-> Lead(t, 0)]
       ELSE [ok |-> FALSE, value |-> 0]

\* int(query_params["q"]): surrounding whitespace dropped, an optional
\* sign, then the digits; ok = FALSE is the ValueError.
IntParse(str) ==
  LET t == RStrip(LStrip(str))
  IN IF t = <<>> THEN [ok |-> FALSE, value |-> 0]
     ELSE IF Head(t) = "-"
       THEN LET r == ScanDigits(Tail(t), 0, FALSE, FALSE)
            IN [ok |-> r.ok, value |-> 0 - r.value]
     ELSE IF Head(t) = "+" THEN ScanDigits(Tail(t), 0, FALSE, FALSE)
     ELSE ScanDigits(t, 0, FALSE, FALSE)

\* rows of the uploaded sheet that the import screen accepts (line 194: at
\* least 2 options), one of them with a repeated option text.
SheetRows == {<<"Red", "Blue">>, <<"Blue", "Red", "Red">>}

\* q values of public-vote requests.
QParams == {<<"1">>, <<"2">>, <<"-", "1">>, <<"+", "2">>, <<" ", "1", " ">>,
            <<"1", "_", "2">>,
            <<>>, <<"x">>, <<"1", "x">>, <<"1", " ", "2">>, <<"_", "1">>,
            <<"1", "_", "_", "2">>, <<"-">>, <<"1", ".", "0">>}

-----------------------------------------------------------------------------
(* SpecUI: the screens of several browser sessions, interleaved statement  *)
(* by statement on the one connection and cursor of lines 18-19            *)

FirstIndex(texts, t) ==
  CHOOSE i \in 1..Len(texts) : texts[i] = t /\ \A j \in 1..(i - 1) : texts[j] # t

\* votes whose record_vote call has been started.
VotesStarted ==
  db.seq.votes + Cardinality({s \in Sessions : sess[s].pc = "vote_insert"})

QuestionsStarted == db.seq.questions

\* the reactive host starts one more run of the script.
RunStarts(h) == [h EXCEPT !.runs = @ + 1]

\* line 130: a request arrives with a q parameter.
PublicArrive(s, q) ==
  /\ sess[s].pc = "idle"
  /\ hist.runs < MaxRuns
  /\ sess' = [sess EXCEPT ![s] = [IdleSession EXCEPT !.pc = "pv_parse", !.q = q]]
  /\ hist' = RunStarts(hist)
  /\ UNCHANGED <<db, disk, lastrowid, last>>

\* lines 131-135.
PublicParse(s) ==
  /\ sess[s].pc = "pv_parse"
  /\ LET r == IntParse(sess[s].q)
     IN IF r.ok
          THEN /\ sess' = [sess EXCEPT ![s].pc = "pv_get", ![s].qid = r.value]
               /\ UNCHANGED last
          ELSE ErrorStop(s, "Invalid question id.")
  /\ UNCHANGED <<db, disk, lastrowid, hist>>

\* st.radio over the option texts, the id looked up by the first index of
\* the selected text, and the submit button (lines 145-150, 233-235).
\* A question without options makes the lookup raise.
Choose(s, question) ==
  IF question.options = <<>>
    THEN sess' = [sess EXCEPT ![s] = IdleSession]
  ELSE \E i \in 1..Len(question.options), pressed \in BOOLEAN :
         LET texts == [j \in 1..Len(question.options) |-> question.options[j].text]
             oid == question.options[FirstIndex(texts, texts[i])].id
         IN IF pressed /\ VotesStarted < MaxVotes
              THEN sess' = [sess EXCEPT ![s] =
                             [IdleSession EXCEPT !.pc = "vote_insert",
                                                 !.qid = question.id, !.oid = oid]]
              ELSE sess' = [sess EXCEPT ![s] = IdleSession]

\* lines 137-150.
PublicGet(s) ==
  /\ sess[s].pc = "pv_get"
  /\ LET question == get_question(db, sess[s].qid)
     IN IF question = None
          THEN ErrorStop(s, "Question not found.")
          ELSE Choose(s, question) /\ UNCHANGED last
  /\ UNCHANGED <<db, disk, lastrowid, hist>>

\* lines 225-231: the local voting page lists the questions and one is chosen.
LocalList(s) ==
  /\ sess[s].pc = "idle"
  /\ hist.runs < MaxRuns
  /\ \E row \in db.questions :
       sess' = [sess EXCEPT ![s] = [IdleSession EXCEPT !.pc = "lv_get", !.qid = row.id]]
  /\ hist' = RunStarts(hist)
  /\ UNCHANGED <<db, disk, lastrowid, last>>

\* lines 232-235: q["options"] on None raises.
LocalGet(s) ==
  /\ sess[s].pc = "lv_get"
  /\ LET question == get_question(db, sess[s].qid)
     IN IF question = None
          THEN sess' = [sess EXCEPT ![s] = IdleSession]
          ELSE Choose(s, question)
  /\ UNCHANGED <<db, disk, lastrowid, last, hist>>

\* record_vote, line 103.
VoteInsert(s) ==
  /\ sess[s].pc = "vote_insert"
  /\ db' = InsertVoteRow(db, sess[s].qid, sess[s].oid)
  /\ lastrowid' = db'.seq.votes
  /\ sess' = [sess EXCEPT ![s].pc = "vote_commit"]
  /\ hist' = [hist EXCEPT !.overlap =
                @ \/ \E t \in Sessions \ {s} : sess[t].pc = "vote_commit"]
  /\ UNCHANGED <<disk, last>>

\* record_vote, line 105; the results drawn after it only read.
VoteCommit(s) ==
  /\ sess[s].pc = "vote_commit"
  /\ disk' = db
  /\ sess' = [sess EXCEPT ![s] = IdleSession]
  /\ hist' = [Committed(hist) EXCEPT !.calls[<<sess[s].qid, sess[s].oid>>] = @ + 1]
  /\ UNCHANGED <<db, lastrowid, last>>

\* Save Questions on a row the screen accepts (lines 188-195), up to the
\* INSERT of line 74.  Each row of the sheet is its own insert and commit;
\* a sheet of several rows is as many of these in a row.
ImportQuestion(s, question_text, options_list) ==
  /\ sess[s].pc = "idle"
  /\ hist.runs < MaxRuns
  /\ QuestionsStarted < MaxQuestions
  /\ db' = InsertQuestionRow(db, question_text)
  /\ lastrowid' = db'.seq.questions
  /\ sess' = [sess EXCEPT ![s] = [IdleSession EXCEPT !.pc = "ins_rowid",
                                                     !.opts = options_list]]
  /\ hist' = RunStarts(hist)
  /\ UNCHANGED <<disk, last>>

\* line 76: qid = c.lastrowid, read from the cursor every session shares.
ImportRowid(s) ==
  /\ sess[s].pc = "ins_rowid"
  /\ sess' = [sess EXCEPT ![s].pc = "ins_opt", ![s].qid = lastrowid]
  /\ UNCHANGED <<db, disk, lastrowid, last, hist>>

\* lines 77-78, one turn of the loop.
ImportOption(s) ==
  /\ sess[s].pc = "ins_opt"
  /\ sess[s].opts # <<>>
  /\ db' = InsertOptionRow(db, sess[s].qid, Head(sess[s].opts))
  /\ lastrowid' = db'.seq.options
  /\ sess' = [sess EXCEPT ![s].opts = Tail(@)]
  /\ UNCHANGED <<disk, last, hist>>

\* line 79.
ImportCommit(s) ==
  /\ sess[s].pc = "ins_opt"
  /\ sess[s].opts = <<>>
  /\ disk' = db
  /\ sess' = [sess EXCEPT ![s] = IdleSession]
  /\ hist' = Committed(hist)
  /\ UNCHANGED <<db, lastrowid, last>>

\* Questions Manager: the Delete Question button of a listed question
\* (lines 203-218), up to the first DELETE (line 120).  The reads before it
\* change nothing.
ManagerDelete(s) ==
  /\ sess[s].pc = "idle"
  /\ hist.runs < MaxRuns
  /\ \E row \in db.questions :
       /\ db' = DeleteVotesOf(db, row.id)
       /\ sess' = [sess EXCEPT ![s] = [IdleSession EXCEPT !.pc = "del_opts",
                                                          !.qid = row.id]]
  /\ hist' = RunStarts(hist)
  /\ UNCHANGED <<disk, lastrowid, last>>

\* line 121.
DeleteOptions(s) ==
  /\ sess[s].pc = "del_opts"
  /\ db' = DeleteOptionsOf(db, sess[s].qid)
  /\ sess' = [sess EXCEPT ![s].pc = "del_question"]
  /\ UNCHANGED <<disk, lastrowid, last, hist>>

\* line 122.
DeleteQuestion(s) ==
  /\ sess[s].pc = "del_question"
  /\ db' = DeleteQuestionRow(db, sess[s].qid)
  /\ sess' = [sess EXCEPT ![s].pc = "del_commit"]
  /\ hist' = [hist EXCEPT !.deleted =
                @ \cup {q.id : q \in {x \in db.questions : x.id = sess[s].qid}}]
  /\ UNCHANGED <<disk, lastrowid, last>>

\* line 123.
DeleteCommit(s) ==
  /\ sess[s].pc = "del_commit"
  /\ disk' = db
  /\ sess' = [sess EXCEPT ![s] = IdleSession]
  /\ hist' = Committed(hist)
  /\ UNCHANGED <<db, lastrowid, last>>

\* Admin Cleanup, lines 268-269.
CleanupVotes(s) ==
  /\ sess[s].pc = "idle"
  /\ hist.runs < MaxRuns
  /\ db' = [db EXCEPT !.votes = {}]
  /\ sess' = [sess EXCEPT ![s] = [IdleSession EXCEPT !.pc = "wipe_opts"]]
  /\ hist' = RunStarts(hist)
  /\ UNCHANGED <<disk, lastrowid, last>>

\* line 270.
CleanupOptions(s) ==
  /\ sess[s].pc = "wipe_opts"
  /\ db' = [db EXCEPT !.options = {}]
  /\ sess' = [sess EXCEPT ![s].pc = "wipe_questions"]
  /\ UNCHANGED <<disk, lastrowid, last, hist>>

\* lines 271-272.
CleanupQuestions(s) ==
  /\ sess[s].pc = "wipe_questions"
  /\ db' = [db EXCEPT !.questions = {}]
  /\ disk' = db'
  /\ sess' = [sess EXCEPT ![s] = IdleSession]
  /\ hist' = [Committed(hist) EXCEPT !.deleted = @ \cup {q.id : q \in db.questions}]
  /\ UNCHANGED <<lastrowid, last>>

NextUI ==
  \E s \in Sessions :
     \/ \E q \in QParams : PublicArrive(s, q)
     \/ PublicParse(s)
     \/ PublicGet(s)
     \/ LocalList(s)
     \/ LocalGet(s)
     \/ VoteInsert(s)
     \/ VoteCommit(s)
     \/ \E t \in QuestionTexts, l \in SheetRows : ImportQuestion(s, t, l)
     \/ ImportRowid(s)
     \/ ImportOption(s)
     \/ ImportCommit(s)
     \/ ManagerDelete(s)
     \/ DeleteOptions(s)
     \/ DeleteQuestion(s)
     \/ DeleteCommit(s)
     \/ CleanupVotes(s)
     \/ CleanupOptions(s)
     \/ CleanupQuestions(s)

SpecUI == InitStore /\ [][NextUI]_vars

-----------------------------------------------------------------------------
(* Properties of the repository functions (Spec, SpecFail)                 *)

TextsOf(q) == [i \in 1..Len(q.options) |-> q.options[i].text]

RECURSIVE SumCounts(_)
SumCounts(rows) ==
  IF rows = <<>> THEN 0 ELSE Head(rows).count + SumCounts(Tail(rows))

IsOptionOf(d, qid, oid) == \E o \in OptionsOf(d, qid) : o.id = oid

\* C1: an insert of a list of at least 2 options followed by get_question
\* of the returned id gives back exactly that list, in order.
C1_InsertThenGet ==
  (last.op = "insert" /\ Len(last.opts) >= 2) =>
     /\ get_question(db, last.qid) # None
     /\ TextsOf(get_question(db, last.qid)) = last.opts

C1_Witness ==
  /\ last.op = "insert"
  /\ Len(last.opts) = 3
  /\ last.opts[1] # last.opts[2]
  /\ hist.deleted # {}
  /\ db.votes # {}
  /\ TextsOf(get_question(db, last.qid)) = last.opts

\* C2: for every existing question, get_results has one row per option,
\* no negative count, and the counts add up to the number of record_vote
\* calls made with that question id, whatever option id they carried.
C2_SumIsAllVotes ==
  \A q \in db.questions :
    LET r == get_results(db, q.id)
    IN /\ Len(r) = Cardinality(OptionsOf(db, q.id))
       /\ {r[i].option_id : i \in 1..Len(r)} = {o.id : o \in OptionsOf(db, q.id)}
       /\ \A i \in 1..Len(r) : r[i].count >= 0
       /\ SumCounts(r) = hist.voteCalls[q.id]

\* C3: record_vote(qid, oid) for an option oid of an existing question qid
\* raises oid's count in get_results(qid) by exactly 1 and leaves the
\* other rows as they were.
C3_VoteAddsOne ==
  (last.op = "vote" /\ get_question(db, last.qid) # None
     /\ IsOptionOf(db, last.qid, last.oid)) =>
     LET after == get_results(db, last.qid)
     IN /\ Len(after) = Len(last.before)
        /\ \A i \in 1..Len(after) :
             /\ after[i].option_id = last.before[i].option_id
             /\ after[i].option_text = last.before[i].option_text
             /\ after[i].count = last.before[i].count
                                   + (IF after[i].option_id = last.oid THEN 1 ELSE 0)

C3_Witness ==
  /\ last.op = "vote"
  /\ get_question(db, last.qid) # None
  /\ IsOptionOf(db, last.qid, last.oid)
  /\ Len(last.before) >= 2
  /\ \E i \in 1..Len(last.before) : last.before[i].count > 0
  /\ SumCounts(get_results(db, last.qid)) = SumCounts(last.before) + 1

\* C4: after delete_question(qid), get_question(qid) is None, no option
\* row has question_id = qid, and no vote row refers to qid through its
\* question_id or through an option id that belonged to qid.
C4_DeleteLeavesNothing ==
  last.op = "delete" =>
     /\ get_question(db, last.qid) = None
     /\ OptionsOf(db, last.qid) = {}
     /\ \A v \in db.votes :
          /\ v.question_id # last.qid
          /\ \A i \in 1..Len(last.before) : v.option_id # last.before[i].option_id

\* C8: once a question id has been deleted (delete_question or the global
\* wipe), get_question of it stays None, no insert returns it again and no
\* vote is recorded for it.
C8_DeletedIsTerminal ==
  \A q \in hist.deleted :
     /\ get_question(db, q) = None
     /\ ~ (last.op = "insert" /\ last.qid = q)
     /\ \A v \in db.votes : v.question_id # q

HeldIn(d, f) ==
  /\ get_question(d, f.qid) # None
  /\ TextsOf(get_question(d, f.qid)) = SubSeq(f.opts, 1, f.k)

\* C10 as stated: an insert that fails after the question row and before
\* all option rows leaves the question with fewer than 2 options, and the
\* partial question stays visible and is kept by later commits.
C10_PartialHasFewerThanTwo ==
  \A f \in hist.failed :
     f.qid \notin hist.deleted =>
        /\ f.k < 2
        /\ HeldIn(db, f)
        /\ f.committed => HeldIn(disk, f)

\* C10 amended: the interrupted insert leaves the question with a strict
\* prefix of options_list (possibly empty, possibly 2 or more entries);
\* nothing rolls it back, so the connection sees it and a later commit
\* keeps it until the question is deleted.
C10_PartialIsStrictPrefix ==
  \A f \in hist.failed :
     f.qid \notin hist.deleted =>
        /\ f.k < Len(f.opts)
        /\ HeldIn(db, f)
        /\ f.committed => HeldIn(disk, f)

C10_Witness ==
  \E f \in hist.failed :
     /\ f.qid \notin hist.deleted
     /\ f.committed
     /\ f.k = 1
     /\ Len(f.opts) = 3
     /\ HeldIn(disk, f)
     /\ Cardinality(OptionsOf(disk, f.qid)) = 1

-----------------------------------------------------------------------------
(* Properties of the screens (SpecUI)                                      *)

\* C5: whatever the sessions do, once their runs have ended every committed
\* vote row's (question_id, option_id) names an existing option of an
\* existing question with that question_id.
C5_VotesReferToOptions ==
  (\A s \in Sessions : sess[s].pc = "idle") =>
     \A v \in disk.votes :
        /\ \E q \in disk.questions : q.id = v.question_id
        /\ \E o \in disk.options : o.id = v.option_id /\ o.question_id = v.question_id

\* An integer literal as int() reads it, stated on the text: optional
\* blanks around an optional sign and digits, single underscores between
\* digits.  Every other text is non-numeric.
IsIntLiteral(q) ==
  \E a \in 0..Len(q), b \in 0..Len(q) :
     /\ a + b < Len(q)
     /\ \A i \in 1..a : q[i] = " "
     /\ \A i \in (Len(q) - b + 1)..Len(q) : q[i] = " "
     /\ LET m == SubSeq(q, a + 1, Len(q) - b)
            body == IF m[1] \in {"+", "-"} THEN Tail(m) ELSE m
        IN /\ body # <<>>
           /\ body[1] \in Digits
           /\ body[Len(body)] \in Digits
           /\ \A i \in 1..Len(body) : body[i] \in Digits \cup {"_"}
           /\ \A i \in 1..(Len(body) - 1) : ~ (body[i] = "_" /\ body[i + 1] = "_")

RECURSIVE DecimalOf(_)
DecimalOf(ds) ==
  IF ds = <<>> THEN 0
  ELSE DecimalOf(SubSeq(ds, 1, Len(ds) - 1)) * 10 + DigitValue(ds[Len(ds)])

IsDigit(ch) == ch \in Digits

\* the integer an integer literal denotes.
LiteralValue(q) ==
  LET n == DecimalOf(SelectSeq(q, IsDigit))
  IN IF \E i \in 1..Len(q) : q[i] = "-" THEN 0 - n ELSE n

\* C6: a public-vote request with a non-numeric q stops at 'Invalid
\* question id.', one whose q is an integer naming no question stops at
\* 'Question not found.'; in both the run ends in that step, before
\* record_vote, and the tables are as they were.
C6_BadRequestStops ==
  [][\A s \in Sessions :
       /\ (sess[s].pc = "pv_parse" /\ sess'[s] # sess[s] /\ ~ IsIntLiteral(sess[s].q)) =>
             /\ last'.op = "Invalid question id."
             /\ sess'[s].pc = "idle"
             /\ db' = db /\ disk' = disk
       /\ (sess[s].pc = "pv_parse" /\ sess'[s] # sess[s] /\ IsIntLiteral(sess[s].q)) =>
             /\ sess'[s].pc = "pv_get"
             /\ sess'[s].qid = LiteralValue(sess[s].q)
             /\ db' = db /\ disk' = disk
       /\ (sess[s].pc = "pv_get" /\ sess'[s] # sess[s]
             /\ ~ \E row \in db.questions : row.id = LiteralValue(sess[s].q)) =>
             /\ last'.op = "Question not found."
             /\ sess'[s].pc = "idle"
             /\ db' = db /\ disk' = disk
    ]_vars

C6_Witness ==
  /\ last.op = "Question not found."
  /\ db.questions # {}
  /\ db.votes = {}
  /\ \A s \in Sessions : sess[s].pc = "idle"

VoteRuns == {"vote_insert", "vote_commit"}
DeleteRuns == {"del_opts", "del_question", "del_commit", "wipe_opts", "wipe_questions"}

RECURSIVE SumCalls(_, _)
SumCalls(calls, pairs) ==
  IF pairs = {} THEN 0
  ELSE LET p == CHOOSE x \in pairs : TRUE
       IN calls[p] + SumCalls(calls, pairs \ {p})

\* C9: with no delete or wipe run so far, once every record_vote call has
\* returned the votes table holds one row per call and get_results gives,
\* for each option, the number of calls made for it.
C9_NoVoteLost ==
  (/\ hist.deleted = {}
   /\ \A s \in Sessions : sess[s].pc \notin VoteRuns \cup DeleteRuns) =>
     /\ Cardinality(db.votes) = SumCalls(hist.calls, DOMAIN hist.calls)
     /\ \A q \in db.questions :
          LET r == get_results(db, q.id)
          IN \A i \in 1..Len(r) : r[i].count = hist.calls[<<q.id, r[i].option_id>>]

C9_Witness ==
  /\ hist.overlap
  /\ hist.deleted = {}
  /\ \A s \in Sessions : sess[s].pc = "idle"
  /\ \E p \in DOMAIN hist.calls : hist.calls[p] = 2
  /\ Cardinality(db.votes) = 2

====
